---- MODULE Spec2Model ----
(***************************************************************************)
(* Model of src/app.py: a Flask service that lists the sheets of an .xlsx  *)
(* file and serves one sheet page by page (PER_PAGE physical rows a page)  *)
(* through pandas.read_excel with the openpyxl engine.                     *)
(*                                                                         *)
(* The operations modelled are list_files, list_sheets and get_sheet_data, *)
(* from the rate limiter's hook and the API-key check to the response.     *)
(* pandas is modelled as its python parser works on the rows the openpyxl  *)
(* reader hands it: header = 0, skip_blank_lines = False, the read stopped *)
(* after the rows nrows and skiprows ask for.                              *)
(*                                                                         *)
(* Text (a cell, a name, the page parameter, a URL) is a sequence of       *)
(* Unicode code points.  The empty text is an empty cell (openpyxl's None, *)
(* which pandas converts to "" and later to NaN).  A row is a sequence of  *)
(* cells, a sheet a sequence of rows whose first row is the header.        *)
(***************************************************************************)
EXTENDS Integers, Sequences, FiniteSets, TLC

VARIABLES
    fileRows,   \* rows of the sheet SheetName of the file FileName, as stored on disk
    corrupt,    \* TRUE when the file FileName is not a readable workbook
    req,        \* the request being answered
    resp,       \* the response to it
    reads,      \* the reads of the file made while answering it, in order
    hits,       \* the limiter's storage: the requests counted in the window of each route
    walkNext,   \* client walk: the page to fetch next; 0 once has_more was false
    walkData    \* client walk: the data arrays of pages 1..walkNext-1, concatenated

vars == <<fileRows, corrupt, req, resp, reads, hits, walkNext, walkData>>

(***************************************************************************)
(* Bounds of the model.                                                    *)
(***************************************************************************)
MaxTail == 2      \* free rows after the filler rows
MaxPage == 3      \* largest page number a request names
MaxShort == 1     \* data rows of the sheets of SpecAny
MaxRefused == 1   \* requests a client goes on to send to a route that refuses them

(***************************************************************************)
(* Program constants.                                                      *)
(***************************************************************************)
PER_PAGE == 25

Min(a, b) == IF a < b THEN a ELSE b
Max(a, b) == IF a > b THEN a ELSE b

\* Python's None
None == <<>>
Some(x) == <<x>>

(***************************************************************************)
(* Text: int(), str() of an integer, urllib.parse.quote.  A character is   *)
(* its Unicode code point (a surrogate is not a character), a text a       *)
(* sequence of characters.                                                 *)
(***************************************************************************)
\* the printable ASCII characters, from " " (32) to "~" (126); the grave accent
\* (96) is written by its name
Ascii ==
    <<" ", "!", "\"", "#", "$", "%", "&", "'", "(", ")", "*", "+",
      ",", "-", ".", "/", "0", "1", "2", "3", "4", "5", "6", "7",
      "8", "9", ":", ";", "<", "=", ">", "?", "@", "A", "B", "C",
      "D", "E", "F", "G", "H", "I", "J", "K", "L", "M", "N", "O",
      "P", "Q", "R", "S", "T", "U", "V", "W", "X", "Y", "Z", "[",
      "\\", "]", "^", "_", "grave", "a", "b", "c", "d", "e", "f", "g",
      "h", "i", "j", "k", "l", "m", "n", "o", "p", "q", "r", "s",
      "t", "u", "v", "w", "x", "y", "z", "{", "|", "}", "~">>

\* ord(c) of a printable ASCII character
Ord(c) == 31 + (CHOOSE i \in 1..Len(Ascii) : Ascii[i] = c)

\* the text of a sequence of printable ASCII characters
Text(s) == [i \in 1..Len(s) |-> Ord(s[i])]

Zero       == Ord("0")
Underscore == Ord("_")
Minus      == Ord("-")
Plus       == Ord("+")
Percent    == Ord("%")

\* the characters with a decimal value (Unicode category Nd) come in runs of
\* ten, valued 0 to 9; these are the zeros of the runs
DecimalZeros ==
    {48, 1632, 1776, 1984, 2406, 2534, 2662, 2790, 2918, 3046, 3174, 3302,
     3430, 3558, 3664, 3792, 3872, 4160, 4240, 6112, 6160, 6470, 6608, 6784,
     6800, 6992, 7088, 7232, 7248, 42528, 43216, 43264, 43472, 43504, 43600,
     44016, 65296, 66720, 68912, 69734, 69872, 69942, 70096, 70384, 70736,
     70864, 71248, 71360, 71472, 71904, 72016, 72784, 73040, 73120, 92768,
     92864, 93008, 120782, 120792, 120802, 120812, 120822, 123200, 123632,
     125264, 130032}

\* the digits int() accepts in base 10
IsDigit(c) == \E z \in DecimalZeros : c - z \in 0..9
DigitVal(c) == c - (CHOOSE z \in DecimalZeros : c - z \in 0..9)

\* the whitespace int() strips: tab, LF, VT, FF, CR, space, NEL, NBSP and the
\* Unicode space and line separators
Spaces ==
    {9, 10, 11, 12, 13, 32, 133, 160, 5760, 8192, 8193, 8194, 8195, 8196, 8197,
     8198, 8199, 8200, 8201, 8202, 8232, 8233, 8239, 8287, 12288}

IsSpace(c) == c \in Spaces

RECURSIVE LStrip(_)
LStrip(s) == IF s # <<>> /\ IsSpace(Head(s)) THEN LStrip(Tail(s)) ELSE s

RECURSIVE RStrip(_)
RStrip(s) ==
    IF s # <<>> /\ IsSpace(s[Len(s)]) THEN RStrip(SubSeq(s, 1, Len(s) - 1)) ELSE s

\* the digits of an int literal: digits, single underscores between digits;
\* afterDigit tells whether a digit stands before s
DigitsOk(s, afterDigit) ==
    /\ \A i \in 1..Len(s) :
          \/ IsDigit(s[i])
          \/ s[i] = Underscore /\ (IF i = 1 THEN afterDigit ELSE IsDigit(s[i - 1]))
    /\ IF s = <<>> THEN afterDigit ELSE IsDigit(s[Len(s)])

RECURSIVE DigitsVal(_, _)
DigitsVal(s, acc) ==
    IF s = <<>> THEN acc
    ELSE IF Head(s) = Underscore THEN DigitsVal(Tail(s), acc)
    ELSE DigitsVal(Tail(s), 10 * acc + DigitVal(Head(s)))

\* the digits of a literal from its first digit that is not a zero
Significant(s) ==
    LET nonzero == {i \in 1..Len(s) : s[i] # Underscore /\ DigitVal(s[i]) # 0}
    IN  IF nonzero = {} THEN <<>>
        ELSE SubSeq(s, CHOOSE i \in nonzero : \A j \in nonzero : i <= j, Len(s))

\* sys.get_int_max_str_digits(): int() refuses a literal of more digits
MAX_STR_DIGITS == 4300

\* int(text): [ok |-> FALSE] stands for ValueError
IntOfStr(text) ==
    LET s      == RStrip(LStrip(text))
        neg    == s # <<>> /\ Head(s) = Minus
        sign   == s # <<>> /\ Head(s) \in {Minus, Plus}
        body   == IF sign THEN Tail(s) ELSE s
        digits == Cardinality({i \in 1..Len(body) : IsDigit(body[i])})
        val    == DigitsVal(Significant(body), 0)
    IN  IF digits <= MAX_STR_DIGITS /\ DigitsOk(body, FALSE)
        THEN [ok |-> TRUE, val |-> IF neg THEN 0 - val ELSE val]
        ELSE [ok |-> FALSE, val |-> 0]

\* str(n) of a natural number, as the f-string formats page + 1
RECURSIVE StrOfNat(_)
StrOfNat(n) ==
    IF n < 10 THEN <<Zero + n>>
    ELSE StrOfNat(n \div 10) \o <<Zero + (n % 10)>>

\* str.encode("utf-8") of one character: its bytes
UTF8(c) ==
    IF c < 128 THEN <<c>>
    ELSE IF c < 2048 THEN <<192 + (c \div 64), 128 + (c % 64)>>
    ELSE IF c < 65536
    THEN <<224 + (c \div 4096), 128 + ((c \div 64) % 64), 128 + (c % 64)>>
    ELSE <<240 + (c \div 262144), 128 + ((c \div 4096) % 64),
           128 + ((c \div 64) % 64), 128 + (c % 64)>>

\* the bytes quote leaves as they are: letters, digits, "_.-~" and safe="/"
SafeBytes ==
    (Ord("A")..Ord("Z")) \cup (Ord("a")..Ord("z")) \cup (Ord("0")..Ord("9"))
        \cup {Ord("_"), Ord("."), Ord("-"), Ord("~"), Ord("/")}

IsSafe(b) == b \in SafeBytes

HexDigits == Text(<<"0", "1", "2", "3", "4", "5", "6", "7", "8", "9",
                    "A", "B", "C", "D", "E", "F">>)

\* a byte as quote writes it: itself when safe, %XX otherwise
QuoteByte(b) ==
    IF IsSafe(b) THEN <<b>>
    ELSE <<Percent, HexDigits[(b \div 16) + 1], HexDigits[(b % 16) + 1]>>

RECURSIVE QuoteBytes(_)
QuoteBytes(bytes) ==
    IF bytes = <<>> THEN <<>> ELSE QuoteByte(Head(bytes)) \o QuoteBytes(Tail(bytes))

\* urllib.parse.quote of one character: its UTF-8 bytes, each quoted
QuoteChar(c) == QuoteBytes(UTF8(c))

\* urllib.parse.quote(s)
RECURSIVE quote(_)
quote(s) == IF s = <<>> THEN <<>> ELSE QuoteChar(Head(s)) \o quote(Tail(s))

(***************************************************************************)
(* pandas.read_excel(..., engine='openpyxl') on one sheet, as the three    *)
(* calls of get_sheet_data use it (header = 0, index_col = None).          *)
(***************************************************************************)
\* nrows=None / skiprows=None
NoLimit == None

\* OpenpyxlReader._convert_cell gives "" for a cell without a value
EmptyCell == <<>>

\* OpenpyxlReader.get_sheet_data: trailing empty cells of a row are dropped
RECURSIVE TrimRow(_)
TrimRow(row) ==
    IF row # <<>> /\ row[Len(row)] = EmptyCell
    THEN TrimRow(SubSeq(row, 1, Len(row) - 1))
    ELSE row

\* index of the last row with data among the first n, 0 when there is none
RECURSIVE LastRowWithData(_, _)
LastRowWithData(data, n) ==
    IF n = 0 THEN 0
    ELSE IF data[n] # <<>> THEN n
    ELSE LastRowWithData(data, n - 1)

\* max(len(data_row) for data_row in data)
MaxWidth(data) ==
    IF data = <<>> THEN 0
    ELSE LET widths == {Len(data[i]) : i \in 1..Len(data)}
         IN  CHOOSE w \in widths : \A v \in widths : v <= w

PadRow(row, width) ==
    [i \in 1..width |-> IF i <= Len(row) THEN row[i] ELSE EmptyCell]

\* OpenpyxlReader.get_sheet_data(sheet, file_rows_needed): the rows read (the
\* loop stops once file_rows_needed rows are read), each without its trailing
\* empty cells, without the trailing empty rows, padded to one width
SheetData(rows, file_rows_needed) ==
    LET n       == IF file_rows_needed = NoLimit THEN Len(rows)
                   ELSE Min(Max(file_rows_needed[1], 1), Len(rows))
        read    == [i \in 1..n |-> TrimRow(rows[i])]
        kept    == SubSeq(read, 1, LastRowWithData(read, n))
        width   == MaxWidth(kept)
    IN  [i \in 1..Len(kept) |-> PadRow(kept[i], width)]

\* BaseExcelReader._check_skiprows_func: file rows to read so that rows_to_use
\* of them are not skipped
RECURSIVE CheckSkiprows(_, _, _, _)
CheckSkiprows(skip, rows_to_use, i, used) ==
    IF used >= rows_to_use THEN i
    ELSE CheckSkiprows(skip, rows_to_use, i + 1, IF i \in skip THEN used ELSE used + 1)

\* BaseExcelReader._calc_rows with header = 0 and skiprows a list (the empty
\* set for skiprows=None): None when nrows is None
CalcRows(skip, nrows) ==
    IF nrows = NoLimit THEN NoLimit
    ELSE Some(CheckSkiprows(skip, 1 + nrows[1], 0, 0))

\* PythonParser._next_line on list data: the position (0-based) after the
\* skipped rows, where the next line is read; a position >= len is StopIteration
RECURSIVE SkipFrom(_, _, _)
SkipFrom(skip, pos, len) ==
    IF pos \in skip /\ pos < len THEN SkipFrom(skip, pos + 1, len) ELSE pos

\* PythonParser._remove_skipped_rows on the slice of positions from..to-1
RemoveSkipped(skip, from, to) ==
    SelectSeq([k \in 1..Max(to - from, 0) |-> from + k - 1], LAMBDA p : p \notin skip)

\* The 0-based positions of the data lines the parser returns: the header is the
\* first line not skipped; _get_index_name then buffers up to two lines through
\* _next_line; _get_lines(nrows) takes them from the buffer and the rest as the
\* slice data[pos : pos + rows], from which the skipped rows are removed
ParserLines(skip, len, nrows) ==
    LET h    == SkipFrom(skip, 0, len)
        p1   == SkipFrom(skip, h + 1, len)
        has1 == p1 < len
        p2   == IF has1 THEN SkipFrom(skip, p1 + 1, len) ELSE p1
        has2 == has1 /\ p2 < len
        buf  == IF has2 THEN <<p1, p2>> ELSE IF has1 THEN <<p1>> ELSE <<>>
        pos  == IF has2 THEN p2 + 1 ELSE p2
    IN  IF nrows # NoLimit /\ Len(buf) >= nrows[1]
        THEN SubSeq(buf, 1, nrows[1])
        ELSE LET to == IF nrows = NoLimit THEN len
                       ELSE Min(pos + (nrows[1] - Len(buf)), len)
             IN  buf \o RemoveSkipped(skip, pos, to)

\* usecols: the cells of a row at the 0-based columns named (all when None)
UseCols(row, usecols) ==
    IF usecols = NoLimit THEN row
    ELSE LET at == SelectSeq([i \in 1..Len(row) |-> i], LAMBDA i : (i - 1) \in usecols[1])
         IN  [k \in 1..Len(at) |-> row[at[k]]]

\* A DataFrame: its column labels (the header cells) and its rows
DataFrame(columns, rows) == [columns |-> columns, rows |-> rows]

\* pd.read_excel(filepath, sheet_name=..., usecols=..., skiprows=..., nrows=...)
\* on the rows of the sheet; a sheet without data gives the empty DataFrame()
read_excel(rows, usecols, skip, nrows) ==
    LET data  == SheetData(rows, CalcRows(skip, nrows))
        lines == ParserLines(skip, Len(data), nrows)
    IN  IF data = <<>> THEN DataFrame(<<>>, <<>>)
        ELSE DataFrame(UseCols(data[SkipFrom(skip, 0, Len(data)) + 1], usecols),
                       [k \in 1..Len(lines) |-> UseCols(data[lines[k] + 1], usecols)])

\* DataFrame.to_dict(orient="records"): one record a row, keyed by the column
\* labels in order; a record is kept as the sequence of its values
to_dict(df) == df.rows

(***************************************************************************)
(* The data directory: the workbook FileName holding one sheet SheetName   *)
(* (its last character is U+00E9), and three files that are no workbooks.  *)
(* The directory does not change.                                          *)
(***************************************************************************)
FileName     == Text(<<"f", " ", "x", ".", "x", "l", "s", "x">>)
LockFile     == Text(<<"~", "$", "f", ".", "x", "l", "s", "x">>)
UpperFile    == Text(<<"U", ".", "X", "L", "S", "X">>)
NotesFile    == Text(<<"n", ".", "t", "x", "t">>)
OtherFile    == Text(<<"g">>)
SheetName    == Text(<<"S", "?", "%", "&">>) \o <<233>>
OtherSheet   == Text(<<"T">>)

\* the names of the files in DATA_DIR
DataDir == {FileName, LockFile, UpperFile, NotesFile}

\* os.listdir(DATA_DIR): the names in arbitrary order, which the file system
\* chooses; every listing a call may return
listdir ==
    {names \in [1..Cardinality(DataDir) -> DataDir] :
        \A i, j \in 1..Cardinality(DataDir) : names[i] = names[j] => i = j}

\* os.path.isfile(os.path.join(DATA_DIR, filename))
isfile(filename) == filename \in DataDir

\* f.startswith(prefix)
startswith(f, prefix) == Len(f) >= Len(prefix) /\ SubSeq(f, 1, Len(prefix)) = prefix

\* f.lower().endswith(".xlsx"): "X", "L" and "S" are the only characters but
\* "x", "l" and "s" that lower() turns into these, and no character into "."
XlsxSuffixes ==
    {Text(<<".", x1, l, s, x2>>) :
        x1 \in {"x", "X"}, l \in {"l", "L"}, s \in {"s", "S"}, x2 \in {"x", "X"}}

IsXlsx(f) == Len(f) >= 5 /\ SubSeq(f, Len(f) - 4, Len(f)) \in XlsxSuffixes

\* the prefix of the lock files Excel leaves beside an open workbook
LockPrefix == Text(<<"~", "$">>)

\* the sheets of the workbook
sheet_names == <<SheetName>>

\* a file that pandas cannot open as a workbook
Unreadable(filename) == corrupt \/ filename # FileName

(***************************************************************************)
(* Requests and responses.                                                 *)
(***************************************************************************)
\* jsonify({"error": message}), status
ErrorResponse(status, message) == [status |-> status, body |-> [error |-> message]]

\* require_api_key: FALSE stands for abort(401)
require_api_key(r) == r.auth

\* abort(401, description="Unauthorized") as the handler of 401 answers it
unauthorized == ErrorResponse(401, <<"401 Unauthorized: Unauthorized">>)

\* the handler of 429
rate_limit_exceeded == ErrorResponse(429, <<"Rate limit exceeded">>)

\* list_files(): the names of the directory that end in .xlsx, whatever the
\* case, and do not start with "~$", in the order of the listing names that
\* os.listdir returns (the code does not sort)
list_files(r, names) ==
    IF ~require_api_key(r)
    THEN [resp |-> unauthorized, reads |-> <<>>]
    ELSE [resp  |-> [status |-> 200,
                     body |-> [files |-> SelectSeq(names,
                         LAMBDA f : IsXlsx(f) /\ ~startswith(f, LockPrefix))]],
          reads |-> <<>>]

\* one read of the workbook: the call, the sheet rows streamed, what it raised
\* (None when it returned)
Read(call, rows, raised) == [call |-> call, rows |-> rows, raised |-> raised]

\* list_sheets(filename); fault = 1 when reading the workbook fails
list_sheets(r, fault) ==
    IF ~require_api_key(r)
    THEN [resp |-> unauthorized, reads |-> <<>>]
    ELSE IF ~isfile(r.filename)
    THEN [resp |-> ErrorResponse(404, <<"File not found">>), reads |-> <<>>]
    ELSE IF Unreadable(r.filename) \/ fault = 1
    THEN [resp  |-> ErrorResponse(500, <<"Failed to read file",
                        IF Unreadable(r.filename) THEN "BadZipFile" ELSE "OSError">>),
          reads |-> <<Read("sheet_names", 0,
                        Some(IF Unreadable(r.filename) THEN "BadZipFile" ELSE "OSError"))>>]
    ELSE [resp  |-> [status |-> 200, body |-> [sheets |-> sheet_names]],
          reads |-> <<Read("sheet_names", 0, None)>>]

\* a slip of ParsePage: page < 0 is refused, page 0 is let through
ParsePageFromZero(args) ==
    LET parsed == IF args = None THEN [ok |-> TRUE, val |-> 1] ELSE IntOfStr(args[1])
    IN  IF parsed.ok /\ parsed.val >= 0 THEN parsed ELSE [ok |-> FALSE, val |-> 0]

\* page = int(request.args.get("page", 1)); if page <= 0: raise ValueError
\* args is None when the query has no page parameter
ParsePage(args) ==
    LET parsed == IF args = None THEN [ok |-> TRUE, val |-> 1] ELSE IntOfStr(args[1])
    IN  IF parsed.ok /\ parsed.val > 0 THEN parsed ELSE [ok |-> FALSE, val |-> 0]

\* start = (page - 1) * PER_PAGE
Start(page) == (page - 1) * PER_PAGE

\* skip = range(1, start + 1)
SkipRows(start) == 1..start

\* a slip of HasMore: a full last page announces one more page
HasMoreInclusive(start, total_rows) == (start + PER_PAGE) <= total_rows

\* has_more = (start + PER_PAGE) < total_rows
HasMore(start, total_rows) == (start + PER_PAGE) < total_rows

\* a slip of NextPageUrl: the names are put into the URL as they are
NextPageUrlUnquoted(filename, sheet_name, page) ==
    Text(<<"/", "f", "i", "l", "e", "/">>) \o filename
        \o Text(<<"/", "s", "h", "e", "e", "t", "/">>) \o sheet_name
        \o Text(<<"?", "p", "a", "g", "e", "=">>) \o StrOfNat(page + 1)

\* f"/file/{encoded_file}/sheet/{encoded_sheet}?page={page + 1}"
NextPageUrl(filename, sheet_name, page) ==
    Text(<<"/", "f", "i", "l", "e", "/">>) \o quote(filename)
        \o Text(<<"/", "s", "h", "e", "e", "t", "/">>) \o quote(sheet_name)
        \o Text(<<"?", "p", "a", "g", "e", "=">>) \o StrOfNat(page + 1)

\* What one pd.read_excel call of get_sheet_data does: it raises when the
\* workbook cannot be opened, when the sheet is not in it (before any row is
\* read) or when the read fails under way; otherwise it returns the DataFrame.
ReadCall(call, r, failing, usecols, skip, nrows) ==
    LET needed   == CalcRows(skip, nrows)
        streamed == IF needed = NoLimit THEN Len(fileRows)
                    ELSE Min(Max(needed[1], 1), Len(fileRows))
    IN  IF Unreadable(r.filename)
        THEN [ok |-> FALSE, cause |-> "BadZipFile",
              read |-> Read(call, 0, Some("BadZipFile"))]
        ELSE IF r.sheet_name # SheetName
        THEN [ok |-> FALSE, cause |-> "Worksheet not found",
              read |-> Read(call, 0, Some("Worksheet not found"))]
        ELSE IF failing
        THEN [ok |-> FALSE, cause |-> "OSError",
              read |-> Read(call, streamed, Some("OSError"))]
        ELSE [ok |-> TRUE, df |-> read_excel(fileRows, usecols, skip, nrows),
              read |-> Read(call, streamed, None)]

\* a slip of LoadFailure: the exception is swallowed and an empty page returned
LoadFailureAsEmptyPage(cause) ==
    [status |-> 200,
     body |-> [file |-> FileName, sheet |-> SheetName, page |-> 1, per_page |-> PER_PAGE,
               total_rows |-> 0, has_more |-> FALSE, next_page |-> None, data |-> <<>>]]

\* jsonify({"error": f"Could not load sheet: {str(e)}"}), 500
LoadFailure(cause) == ErrorResponse(500, <<"Could not load sheet", cause>>)

\* a slip of CountRead: the rows are counted in the first page only
CountReadOnePage(r, failing) ==
    ReadCall("total_rows", r, failing, Some({0}), {}, Some(PER_PAGE))

\* total_df = pd.read_excel(filepath, sheet_name=sheet_name, usecols=[0], ...)
CountRead(r, failing) == ReadCall("total_rows", r, failing, Some({0}), {}, NoLimit)

\* df = pd.read_excel(filepath, sheet_name=sheet_name, skiprows=skip, nrows=PER_PAGE, ...)
WindowRead(r, start, failing) ==
    ReadCall("window", r, failing, None, SkipRows(start), Some(PER_PAGE))

\* pd.read_excel(filepath, sheet_name=sheet_name, nrows=0, ...)
HeaderRead(r, failing) == ReadCall("header", r, failing, None, {}, Some(0))

\* df.columns = <columns>: ValueError when the number of labels differs
SetColumnsOk(df, columns) == Len(df.columns) = Len(columns)

\* a slip of EarlyReturn: the page is validated before the file is looked up
EarlyReturnPageFirst(r) ==
    IF ~require_api_key(r) THEN Some(unauthorized)
    ELSE IF ~ParsePage(r.args).ok THEN Some(ErrorResponse(400, <<"Invalid page value">>))
    ELSE IF ~isfile(r.filename) THEN Some(ErrorResponse(404, <<"File not found">>))
    ELSE None

\* the returns of get_sheet_data that come before its reads; None when it goes on
EarlyReturn(r) ==
    IF ~require_api_key(r) THEN Some(unauthorized)
    ELSE IF ~isfile(r.filename) THEN Some(ErrorResponse(404, <<"File not found">>))
    ELSE IF ~ParsePage(r.args).ok THEN Some(ErrorResponse(400, <<"Invalid page value">>))
    ELSE None

\* the response of get_sheet_data when nothing was raised
PageResponse(r, page, start, total_rows, data) ==
    LET has_more == HasMore(start, total_rows)
    IN  [status |-> 200,
         body |-> [file       |-> r.filename,
                   sheet      |-> r.sheet_name,
                   page       |-> page,
                   per_page   |-> PER_PAGE,
                   total_rows |-> total_rows,
                   has_more   |-> has_more,
                   next_page  |-> IF has_more
                                  THEN Some(NextPageUrl(r.filename, r.sheet_name, page))
                                  ELSE None,
                   data       |-> data]]

\* get_sheet_data(filename, sheet_name); fault names the read (1, 2, 3) that
\* fails under way, 0 for none
get_sheet_data(r, fault) ==
    LET page   == ParsePage(r.args).val
        start  == Start(page)
        total  == CountRead(r, fault = 1)
        window == WindowRead(r, start, fault = 2)
        header == HeaderRead(r, fault = 3)
    IN  IF EarlyReturn(r) # None
        THEN [resp |-> EarlyReturn(r)[1], reads |-> <<>>]
        ELSE IF ~total.ok
        THEN [resp |-> LoadFailure(total.cause), reads |-> <<total.read>>]
        ELSE IF ~window.ok
        THEN [resp |-> LoadFailure(window.cause), reads |-> <<total.read, window.read>>]
        ELSE IF ~header.ok
        THEN [resp  |-> LoadFailure(header.cause),
              reads |-> <<total.read, window.read, header.read>>]
        ELSE IF ~SetColumnsOk(window.df, header.df.columns)
        THEN [resp  |-> LoadFailure("Length mismatch"),
              reads |-> <<total.read, window.read, header.read>>]
        ELSE [resp  |-> PageResponse(r, page, start, Len(total.df.rows),
                            to_dict(DataFrame(header.df.columns, window.df.rows))),
              reads |-> <<total.read, window.read, header.read>>]

(***************************************************************************)
(* The sheets the model starts from: a header, an optional first row,      *)
(* filler rows of one kind that place the rows after them at the end of a  *)
(* page, and up to MaxTail free rows.  A row is blank ("b": one  *)
(* empty cell), narrow ("n": one value) or wide ("w": two values); the     *)
(* value of a data row is its index, so that no two rows are equal.        *)
(***************************************************************************)
Kinds == {"b", "n", "w"}

SeqsUpTo(S, n) == UNION {[1..k -> S] : k \in 0..n}

HeaderRow(kind) ==
    CASE kind = "b" -> <<EmptyCell>>
      [] kind = "n" -> <<Text(<<"N">>)>>
      [] OTHER      -> <<Text(<<"N">>), Text(<<"A">>)>>

DataRow(kind, i) ==
    CASE kind = "b" -> <<EmptyCell>>
      [] kind = "n" -> <<StrOfNat(i)>>
      [] OTHER      -> <<StrOfNat(i), Text(<<"w">>)>>

SheetOf(hkind, kinds) ==
    <<HeaderRow(hkind)>> \o [i \in 1..Len(kinds) |-> DataRow(kinds[i], i)]

\* the filler rows: none, a page less one row, two pages less one row
Fillers ==
    {<<>>} \cup {[i \in 1..(PER_PAGE - 1) |-> k] : k \in {"b", "n"}}
           \cup {[i \in 1..(2 * PER_PAGE - 1) |-> "n"]}

Sheets ==
    {<<>>} \cup
    {SheetOf(hkind, first \o filler \o tail) :
        hkind \in Kinds, first \in {<<>>} \cup {<<k>> : k \in Kinds},
        filler \in Fillers, tail \in SeqsUpTo(Kinds, MaxTail)}

\* the page texts: "0", "1", "2", "", "a", "-1", "+2", "1.5", "_1", a 3 between
\* a no-break space and a line feed, an Arabic-Indic zero before "_2", and a
\* superscript two
PageTexts ==
    {Text(<<"0">>), Text(<<"1">>), Text(<<"2">>), <<>>, Text(<<"a">>),
     Text(<<"-", "1">>), Text(<<"+", "2">>), Text(<<"1", ".", "5">>),
     Text(<<"_", "1">>), <<160, Ord("3"), 10>>, <<1632, Ord("_"), Ord("2")>>, <<178>>}

PageArgs == {None} \cup {Some(t) : t \in PageTexts}

\* every request to /files
FilesRequests ==
    [route : {"list_files"}, auth : BOOLEAN, filename : {None},
     sheet_name : {None}, args : {None}]

\* every request to /file/<filename>/sheets
SheetsRequests ==
    [route : {"list_sheets"}, auth : BOOLEAN, filename : {FileName, OtherFile, LockFile},
     sheet_name : {None}, args : {None}]

\* every request to /file/<filename>/sheet/<sheet_name>
DataRequests ==
    [route : {"get_sheet_data"}, auth : BOOLEAN, filename : {FileName, OtherFile},
     sheet_name : {SheetName, OtherSheet}, args : PageArgs]

\* the requests of a client that pages through the sheet
PagingRequests ==
    [route : {"get_sheet_data"}, auth : {TRUE}, filename : {FileName},
     sheet_name : {SheetName}, args : {Some(StrOfNat(p)) : p \in 1..MaxPage}]

NoRequest == [route |-> "none", auth |-> FALSE, filename |-> None,
              sheet_name |-> None, args |-> None]

NoResponse == [status |-> 0, body |-> [error |-> <<>>]]

(***************************************************************************)
(* The rate limiter: Limiter(get_remote_address, app=app,                  *)
(* default_limits=["100 per hour"]).  A default limit is kept for each     *)
(* route apart, under the key of the remote address and the endpoint; the  *)
(* requests of the model come from one address.  The limiter's hook runs   *)
(* before the view: it counts the request in the window of the route and   *)
(* refuses it when the count is over the limit.                            *)
(***************************************************************************)
Endpoints == {"list_files", "list_sheets", "get_sheet_data"}

\* "100 per hour"
RATE_LIMIT == 100

\* FixedWindowRateLimiter.hit: the counters after the request is counted
Hit(counters, endpoint) == [counters EXCEPT ![endpoint] = @ + 1]

\* ... and whether the count it returns is within the limit
WithinLimit(counters, endpoint) == Hit(counters, endpoint)[endpoint] <= RATE_LIMIT

\* the client walk takes the response when it is the page the walk waits for
WalkStep(r, out) ==
    IF /\ r.route = "get_sheet_data"
       /\ out.resp.status = 200
       /\ r.filename = FileName /\ r.sheet_name = SheetName
       /\ out.resp.body.page = walkNext
    THEN /\ walkData' = walkData \o out.resp.body.data
         /\ walkNext' = IF out.resp.body.has_more THEN walkNext + 1 ELSE 0
    ELSE UNCHANGED <<walkNext, walkData>>

\* One request from the limiter's hook to the response: out is what the view
\* of the route returns when the request is let through to it
Dispatch(r, out) ==
    /\ req' = r
    /\ hits' = Hit(hits, r.route)
    /\ IF WithinLimit(hits, r.route)
       THEN /\ resp' = out.resp
            /\ reads' = out.reads
            /\ WalkStep(r, out)
       ELSE /\ resp' = rate_limit_exceeded
            /\ reads' = <<>>
            /\ UNCHANGED <<walkNext, walkData>>
    /\ UNCHANGED <<fileRows, corrupt>>

\* GET /files
ListFilesOf(requests) ==
    \E r \in requests, names \in listdir : Dispatch(r, list_files(r, names))

\* GET /file/<filename>/sheets
ListSheetsOf(requests, faults) ==
    \E r \in requests, fault \in faults : Dispatch(r, list_sheets(r, fault))

\* GET /file/<filename>/sheet/<sheet_name>?page=...
GetSheetDataOf(requests, faults) ==
    \E r \in requests, fault \in faults : Dispatch(r, get_sheet_data(r, fault))

\* the hour of a route's window is over: its counter expires
WindowExpires ==
    \E e \in Endpoints :
        /\ hits[e] > 0
        /\ hits' = [hits EXCEPT ![e] = 0]
        /\ UNCHANGED <<fileRows, corrupt, req, resp, reads, walkNext, walkData>>

\* a client that sends a request when no window is open: it is never refused
Patient == \A e \in Endpoints : hits[e] = 0

\* a client that keeps to one route until its window expires and goes on
\* until it was refused MaxRefused times
Insistent(e) ==
    /\ hits[e] < RATE_LIMIT + MaxRefused
    /\ \A o \in Endpoints \ {e} : hits[o] = 0

(***************************************************************************)
(* Spec: a patient client pages through every sheet of Sheets.             *)
(***************************************************************************)
Init ==
    /\ corrupt = FALSE
    /\ fileRows \in Sheets
    /\ req = NoRequest
    /\ resp = NoResponse
    /\ reads = <<>>
    /\ hits = [e \in Endpoints |-> 0]
    /\ walkNext = 1
    /\ walkData = <<>>

FetchPage == Patient /\ GetSheetDataOf(PagingRequests, {0})

BrowseSheets ==
    /\ Patient
    /\ ListSheetsOf({r \in SheetsRequests : r.auth /\ r.filename = FileName}, {0})

BrowseFiles == Patient /\ ListFilesOf({r \in FilesRequests : r.auth})

Next == FetchPage \/ BrowseSheets \/ BrowseFiles \/ WindowExpires

Spec == Init /\ [][Next]_vars

(***************************************************************************)
(* SpecAny: every request of a patient client, every failing read, on the  *)
(* short sheets, on a workbook that may be unreadable.                     *)
(***************************************************************************)
ShortSheets ==
    {<<>>} \cup {SheetOf(hkind, tail) : hkind \in Kinds, tail \in SeqsUpTo(Kinds, MaxShort)}

InitAny ==
    /\ corrupt \in BOOLEAN
    /\ fileRows \in (IF corrupt THEN {<<>>} ELSE ShortSheets)
    /\ req = NoRequest
    /\ resp = NoResponse
    /\ reads = <<>>
    /\ hits = [e \in Endpoints |-> 0]
    /\ walkNext = 1
    /\ walkData = <<>>

ListFiles == Patient /\ ListFilesOf(FilesRequests)

ListSheets == Patient /\ ListSheetsOf(SheetsRequests, 0..1)

GetSheetData == Patient /\ GetSheetDataOf(DataRequests, 0..3)

NextAny == ListFiles \/ ListSheets \/ GetSheetData \/ WindowExpires

SpecAny == InitAny /\ [][NextAny]_vars

(***************************************************************************)
(* SpecLimit: an insistent client repeats its requests on one route until  *)
(* the limiter refuses them.                                               *)
(***************************************************************************)
LimitSheets == {<<>>, SheetOf("n", <<"n">>)}

LimitDataRequests ==
    {r \in DataRequests :
        r.args \in {None, Some(Text(<<"a">>)), Some(Text(<<"0">>)), Some(Text(<<"2">>))}}

InitLimit ==
    /\ corrupt = FALSE
    /\ fileRows \in LimitSheets
    /\ req = NoRequest
    /\ resp = NoResponse
    /\ reads = <<>>
    /\ hits = [e \in Endpoints |-> 0]
    /\ walkNext = 1
    /\ walkData = <<>>

RepeatListFiles == Insistent("list_files") /\ ListFilesOf(FilesRequests)

RepeatListSheets == Insistent("list_sheets") /\ ListSheetsOf(SheetsRequests, {0})

RepeatGetSheetData == Insistent("get_sheet_data") /\ GetSheetDataOf(LimitDataRequests, {0})

NextLimit == RepeatListFiles \/ RepeatListSheets \/ RepeatGetSheetData \/ WindowExpires

SpecLimit == InitLimit /\ [][NextLimit]_vars

(***************************************************************************)
(* What the properties speak of.                                           *)
(***************************************************************************)
IsBlank(row) == \A i \in 1..Len(row) : row[i] = EmptyCell

\* the rows after the header, as stored
DataRows == IF fileRows = <<>> THEN <<>> ELSE Tail(fileRows)

\* the header-keyed record of a data row: one value a header field, an absent
\* trailing cell as the empty value
RecordOf(row) ==
    [i \in 1..Len(TrimRow(fileRows[1])) |-> IF i <= Len(row) THEN row[i] ELSE EmptyCell]

\* the records of the rows of a sequence that are not blank, in order
RECURSIVE NonBlankRecords(_)
NonBlankRecords(rows) ==
    IF rows = <<>> THEN <<>>
    ELSE IF IsBlank(Head(rows)) THEN NonBlankRecords(Tail(rows))
    ELSE <<RecordOf(Head(rows))>> \o NonBlankRecords(Tail(rows))

\* the data rows with 0-based index in [(p-1)*PER_PAGE, p*PER_PAGE)
WindowOf(p) == SubSeq(DataRows, (p - 1) * PER_PAGE + 1, Min(p * PER_PAGE, Len(DataRows)))

\* the number of data rows up to the last row that is not blank
CountedRows ==
    Max(LastRowWithData([i \in 1..Len(fileRows) |-> TrimRow(fileRows[i])], Len(fileRows)) - 1, 0)

IsDataRequest == req.route = "get_sheet_data"
IsPage == IsDataRequest /\ resp.status = 200
Failed(read) == read.raised # None

\* the request was refused by the rate limiter
Limited == resp.status = 429

\* the value of a hexadecimal digit, 16 for another character
HexVal(c) ==
    IF c \in Ord("0")..Ord("9") THEN c - Ord("0")
    ELSE IF c \in Ord("A")..Ord("F") THEN c - Ord("A") + 10
    ELSE IF c \in Ord("a")..Ord("f") THEN c - Ord("a") + 10
    ELSE 16

\* percent-decoding: the bytes a quoted text stands for
RECURSIVE UnquoteBytes(_)
UnquoteBytes(s) ==
    IF s = <<>> THEN <<>>
    ELSE IF Head(s) = Percent /\ Len(s) >= 3 /\ HexVal(s[2]) < 16 /\ HexVal(s[3]) < 16
    THEN <<16 * HexVal(s[2]) + HexVal(s[3])>> \o UnquoteBytes(SubSeq(s, 4, Len(s)))
    ELSE UTF8(Head(s)) \o UnquoteBytes(Tail(s))

\* the characters of a UTF-8 byte sequence; U+FFFD for a byte that starts none
RECURSIVE DecodeUTF8(_)
DecodeUTF8(b) ==
    IF b = <<>> THEN <<>>
    ELSE LET n == IF b[1] < 128 THEN 1 ELSE IF b[1] \in 192..223 THEN 2
                  ELSE IF b[1] \in 224..239 THEN 3 ELSE IF b[1] \in 240..247 THEN 4 ELSE 0
             lead == CASE n = 1 -> b[1] [] n = 2 -> b[1] - 192 [] n = 3 -> b[1] - 224
                       [] OTHER -> b[1] - 240
             ok == n > 0 /\ Len(b) >= n /\ \A i \in 2..n : b[i] \in 128..191
         IN  IF ~ok THEN <<65533>> \o DecodeUTF8(Tail(b))
             ELSE <<IF n = 1 THEN lead
                    ELSE IF n = 2 THEN lead * 64 + (b[2] - 128)
                    ELSE IF n = 3 THEN lead * 4096 + (b[2] - 128) * 64 + (b[3] - 128)
                    ELSE lead * 262144 + (b[2] - 128) * 4096 + (b[3] - 128) * 64
                             + (b[4] - 128)>>
                  \o DecodeUTF8(SubSeq(b, n + 1, Len(b)))

\* the text a percent-encoded URL segment stands for
unquote(s) == DecodeUTF8(UnquoteBytes(s))

\* index of the first c in s, Len(s) + 1 when there is none
RECURSIVE Find(_, _, _)
Find(s, c, from) ==
    IF from > Len(s) \/ s[from] = c THEN from ELSE Find(s, c, from + 1)

\* The request a URL makes on @app.route("/file/<filename>/sheet/<sheet_name>"):
\* the query starts at the first "?" (a "#" starts the fragment, which is not
\* sent), the path is split at "/" and its segments are percent-decoded
RouteOf(url) ==
    LET sent  == SubSeq(url, 1, Find(url, Ord("#"), 1) - 1)
        q     == Find(sent, Ord("?"), 1)
        path  == SubSeq(sent, 1, q - 1)
        query == SubSeq(sent, q + 1, Len(sent))
        s1    == Find(path, Ord("/"), 2)
        s2    == Find(path, Ord("/"), s1 + 1)
        s3    == Find(path, Ord("/"), s2 + 1)
        s4    == Find(path, Ord("/"), s3 + 1)
    IN  IF /\ SubSeq(path, 1, s1) = Text(<<"/", "f", "i", "l", "e", "/">>)
           /\ SubSeq(path, s2, s3) = Text(<<"/", "s", "h", "e", "e", "t", "/">>)
           /\ s4 = Len(path) + 1
           /\ SubSeq(query, 1, 5) = Text(<<"p", "a", "g", "e", "=">>)
        THEN [ok |-> TRUE,
              filename   |-> unquote(SubSeq(path, s1 + 1, s2 - 1)),
              sheet_name |-> unquote(SubSeq(path, s3 + 1, Len(path))),
              args       |-> Some(SubSeq(query, 6, Len(query)))]
        ELSE [ok |-> FALSE, filename |-> <<>>, sheet_name |-> <<>>, args |-> None]

(***************************************************************************)
(* Properties.                                                             *)
(***************************************************************************)
\* C1: once the walk over pages 1, 2, ... has met has_more = false, the data
\* arrays it collected, in page order, are exactly the records of the non-blank
\* data rows of the sheet, in order.
C1_WalkYieldsNonBlankRows ==
    walkNext = 0 => walkData = NonBlankRecords(DataRows)

\* C2: the data array of a page is exactly the records of the non-blank rows
\* among the data rows of the page's window, in order.
C2_PageIsNonBlankRowsOfWindow ==
    IsPage => resp.body.data = NonBlankRecords(WindowOf(resp.body.page))

\* C3, as stated: in a successful page response has_more is true iff
\* page * PER_PAGE is less than total_rows, which is so iff a data row, blank
\* or not, is stored beyond the page's window.
C3_HasMoreIffPhysicalRowBeyondWindow ==
    IsPage =>
        /\ resp.body.has_more <=> resp.body.page * PER_PAGE < resp.body.total_rows
        /\ resp.body.has_more <=> resp.body.page * PER_PAGE < Len(DataRows)

\* C3, amended: in a successful page response has_more is true iff
\* page * PER_PAGE is less than total_rows, which is so iff a data row that is
\* not blank lies beyond the page's window (blank rows stored after the last
\* non-blank row do not count), whatever the rows of the window are.
C3_HasMoreIffRowsBeyondWindow ==
    IsPage =>
        /\ resp.body.has_more <=> resp.body.page * PER_PAGE < resp.body.total_rows
        /\ resp.body.has_more <=>
              \E i \in (resp.body.page * PER_PAGE + 1)..Len(DataRows) : ~IsBlank(DataRows[i])

C3_Witness ==
    IsPage /\ resp.body.has_more /\ resp.body.data = <<>>

\* C4: in a successful page response next_page is present iff has_more is true;
\* when present it is the URL of page + 1 of the same file and sheet, and when
\* has_more is false it is None.
C4_NextPageIffHasMore ==
    IsPage =>
        /\ resp.body.next_page # None <=> resp.body.has_more
        /\ resp.body.has_more =>
              LET to == RouteOf(resp.body.next_page[1])
              IN  /\ to.ok
                  /\ to.filename = req.filename
                  /\ to.sheet_name = req.sheet_name
                  /\ IntOfStr(to.args[1]) = [ok |-> TRUE, val |-> resp.body.page + 1]

C4_Witness ==
    IsPage /\ resp.body.has_more /\ resp.body.page = 2 /\ resp.body.next_page # None

\* C5, as stated: total_rows of a successful page response is the number of all
\* rows after the header, blank rows included, whatever the page.
C5_TotalRowsIsAllDataRows ==
    IsPage => resp.body.total_rows = Len(DataRows)

\* C5, amended: total_rows of a successful page response is, whatever the page,
\* the number of rows after the header up to the last row of the sheet that is
\* not blank (blank rows before that row included, blank rows after it not).
C5_TotalRowsIsRowsToLastNonBlank ==
    IsPage => resp.body.total_rows = CountedRows

C5_Witness ==
    /\ IsPage /\ resp.body.page = 2
    /\ resp.body.total_rows > PER_PAGE
    /\ resp.body.total_rows < Len(DataRows)
    /\ \E i \in 1..resp.body.total_rows : IsBlank(DataRows[i])

\* C6: a valid page beyond the last page of an existing file and sheet is
\* answered with success, an empty data array, has_more = false and no
\* next_page.
C6_PageBeyondLastIsEmptySuccess ==
    (/\ IsDataRequest /\ ~Limited /\ req.auth /\ req.filename = FileName /\ ~corrupt
     /\ req.sheet_name = SheetName
     /\ ParsePage(req.args).ok
     /\ (ParsePage(req.args).val - 1) * PER_PAGE >= Len(DataRows)
     /\ \A i \in 1..Len(reads) : reads[i].raised = None)
    => /\ resp.status = 200
       /\ resp.body.data = <<>>
       /\ resp.body.has_more = FALSE
       /\ resp.body.next_page = None

\* C7: a request for a sheet that the existing file does not hold is answered
\* with 404, not 500, and no row of the file is streamed for it.
C7_MissingSheetIsNotFound ==
    (/\ IsDataRequest /\ ~Limited /\ req.auth /\ req.filename = FileName /\ ~corrupt
     /\ ParsePage(req.args).ok
     /\ req.sheet_name # SheetName)
    => /\ resp.status = 404
       /\ \A i \in 1..Len(reads) : reads[i].rows = 0

\* C8: an authenticated request to list_sheets or get_sheet_data that names a
\* file that does not exist reads no file and, when the rate limiter lets it
\* through to the operation, is answered with 404, whatever its sheet name
\* and page parameter are.
C8_MissingFileIsNotFoundWithoutRead ==
    (/\ req.route \in {"list_sheets", "get_sheet_data"}
     /\ req.auth
     /\ ~isfile(req.filename))
    => /\ reads = <<>>
       /\ ~Limited => resp.status = 404

C8_Witness ==
    /\ IsDataRequest /\ req.auth /\ req.filename = OtherFile
    /\ req.args = Some(Text(<<"a">>))
    /\ hits["get_sheet_data"] = RATE_LIMIT
    /\ resp.status = 404

\* the page texts that are no integer literals, those of an integer <= 0, and
\* the page arguments that name a page with the page they name
NotNumbers ==
    {<<>>, Text(<<"a">>), Text(<<"1", ".", "5">>), Text(<<"_", "1">>), <<178>>}
NotPositive == {Text(<<"0">>), Text(<<"-", "1">>)}
PagesNamed ==
    {<<None, 1>>, <<Some(Text(<<"1">>)), 1>>, <<Some(Text(<<"2">>)), 2>>,
     <<Some(Text(<<"+", "2">>)), 2>>, <<Some(<<160, Ord("3"), 10>>), 3>>,
     <<Some(<<1632, Ord("_"), Ord("2")>>), 2>>}

\* C9: for an existing file, a page parameter that is not a number or is an
\* integer <= 0 is answered with 400 without a read of the file; a request
\* without page parameter is served as page 1, and an integer >= 1 passes the
\* validation and is the page served (the request being authenticated and let
\* through by the rate limiter).
C9_PageValidation ==
    (IsDataRequest /\ ~Limited /\ req.auth /\ isfile(req.filename)) =>
        /\ (req.args # None /\ req.args[1] \in NotNumbers \cup NotPositive)
              => resp.status = 400 /\ reads = <<>>
        /\ \A named \in PagesNamed :
              req.args = named[1] =>
                  /\ resp.status \in {200, 500}
                  /\ reads # <<>>
                  /\ resp.status = 200 => resp.body.page = named[2]

C9_Witness ==
    /\ IsDataRequest /\ req.auth /\ isfile(req.filename)
    /\ req.args = Some(Text(<<"0">>))
    /\ resp.status = 400

\* C10: when a read made for a page raises, the response is the 500 error that
\* carries the cause, and it has no field but error.
C10_FailedReadIsLoadFailure ==
    IsDataRequest =>
        \A i \in 1..Len(reads) :
            Failed(reads[i]) =>
                /\ resp.status = 500
                /\ DOMAIN resp.body = {"error"}
                /\ resp.body.error = <<"Could not load sheet", reads[i].raised[1]>>

C10_Witness ==
    /\ IsDataRequest /\ Len(reads) = 3
    /\ reads[1].raised = None /\ reads[1].rows > 1
    /\ reads[3].raised = Some("OSError")
    /\ resp.status = 500

====
